---- MODULE Spec2Model ----
(***************************************************************************)
(* Model of the bitset library of nirenjan/lub (src/bitset/bitset.c).      *)
(*                                                                         *)
(* A caller holds NumSets pointer variables (handles).  Every public       *)
(* function of bitset.c is one action.  Storage lives in a heap of blocks  *)
(* that the struct's map field points at, so that aliasing is something    *)
(* the model can express.  The C library's allocator is modelled by what   *)
(* the C standard lets it do: malloc and realloc may fail, a fresh block   *)
(* holds arbitrary words, and a request for zero bytes may give NULL or a  *)
(* block of no words; realloc(p, 0) may also free p and give NULL.         *)
(*                                                                         *)
(* A call that runs into undefined behaviour (a read or write outside the  *)
(* block, a use of a freed block) is recorded in fault and ends the        *)
(* behaviour: the source says nothing about what follows.  So does a       *)
(* resize that leaves the struct pointing at a block realloc has freed:    *)
(* every later use of that set, bitset_free included, is undefined.        *)
(*                                                                         *)
(* The caller clears errno before each call.  It either drops the result   *)
(* of a call and goes on, or records it in last and stops to inspect it:   *)
(* every call of every reachable state is inspected in some behaviour,     *)
(* and a state holds at most the one record.                               *)
(*                                                                         *)
(* Widths are scaled down: unsigned int has BITS_PER_INDEX bits and        *)
(* size_t has SizeBits bits.  Arithmetic on size_t wraps as in C.          *)
(***************************************************************************)
EXTENDS Integers, Sequences, FiniteSets, TLC

\* Number of pointer variables the caller holds.
NumSets == 2

\* Words the allocator can hand out in total.
HeapWords == 2

\* sizeof(unsigned int) * 8, scaled down from 32.
BITS_PER_INDEX == 2

\* Width of size_t in bits, scaled down from 64.
SizeBits == 3

UINT_MOD == 2 ^ BITS_PER_INDEX
SIZE_MOD == 2 ^ SizeBits
SIZE_MAX == SIZE_MOD - 1

Handles == 1 .. NumSets
Blocks == 1 .. NumSets
SizeT == 0 .. SIZE_MAX
UInt == 0 .. (UINT_MOD - 1)

VARIABLES
    sets,   \* sets[h]: the struct bitset behind the caller's pointer h
    heap,   \* heap[b]: the block a map pointer b refers to
    errno,  \* errno after the inspected call
    last,   \* the inspected call: function, arguments, return value, *value
    fault   \* the memory fault the last call ran into, or "none"

vars == <<sets, heap, errno, last, fault>>

----------------------------------------------------------------------------
\* Bitwise operators on unsigned int, by arithmetic.

RECURSIVE BitAnd(_, _)
BitAnd(a, b) ==
    IF a = 0 \/ b = 0 THEN 0
    ELSE (a % 2) * (b % 2) + 2 * BitAnd(a \div 2, b \div 2)

BitNot(a) == (UINT_MOD - 1) - a

bitset_merge_and(a, b) == BitAnd(a, b)

\* Mutant: the operands the wrong way round, (~a & b).
bitset_merge_andn_swapped(a, b) == BitAnd(BitNot(a), b)

bitset_merge_andn(a, b) == BitAnd(a, BitNot(b))

bitset_merge_or(a, b) == a + b - BitAnd(a, b)

bitset_merge_xor(a, b) == a + b - 2 * BitAnd(a, b)

bitset_merge_not(a, b) == BitNot(a)

\* A call through a bitset_merge_fn pointer.
Apply(fn, a, b) ==
    CASE fn = "and"  -> bitset_merge_and(a, b)
      [] fn = "andn" -> bitset_merge_andn(a, b)
      [] fn = "or"   -> bitset_merge_or(a, b)
      [] fn = "xor"  -> bitset_merge_xor(a, b)
      [] fn = "not"  -> bitset_merge_not(a, b)

min(a, b) == IF a > b THEN b ELSE a

\* (1 << offset), converted to the unsigned int parameter of the merge
\* function.  For the highest offset the int result is the sign bit, which
\* converts to the highest bit of the word.
\* Mutant: the shift loses the sign bit of int.
ShiftOne_signed(offset) == (2 ^ offset) % (UINT_MOD \div 2)

ShiftOne(offset) == (2 ^ offset) % UINT_MOD

\* The size_t sum wraps before the division.
bitset_map_size(bitset_size) ==
    ((bitset_size + BITS_PER_INDEX - 1) % SIZE_MOD) \div BITS_PER_INDEX

----------------------------------------------------------------------------
\* The heap.

NullSet == [alloc |-> FALSE, length |-> 0, map_length |-> 0, map |-> 0]

FreeBlock == [used |-> FALSE, words |-> <<>>]

Words(n) == [1 .. n -> UInt]

\* The words of the blocks 1 .. b that are allocated.
RECURSIVE UsedWords(_)
UsedWords(b) ==
    IF b = 0 THEN 0
    ELSE (IF heap[b].used THEN Len(heap[b].words) ELSE 0) + UsedWords(b - 1)

FreeWords == HeapWords - UsedWords(NumSets)

\* Whether malloc may return address b: the block is free and no struct
\* still points at it (a reused address would hide a use after free).
Fresh(b) ==
    /\ ~heap[b].used
    /\ \A h \in Handles : ~(sets[h].alloc /\ sets[h].map = b)

\* The address malloc returns for the caller's variable h.  Which address
\* it is cannot be observed, so one is fixed per variable where possible.
FreshBlock(h) ==
    IF Fresh(h) THEN h ELSE CHOOSE b \in Blocks : Fresh(b)

\* Whether the map pointer of s refers to a block that is still allocated.
MapLive(s) == s.alloc /\ s.map \in Blocks /\ heap[s.map].used

Call(op, h, arg, ret, val) ==
    [op |-> op, h |-> h, arg |-> arg, ret |-> ret, val |-> val]

NoCall == Call("none", 0, 0, 0, "unset")

TypeOK ==
    /\ sets \in [Handles -> [alloc : BOOLEAN, length : SizeT,
                             map_length : SizeT, map : 0 .. NumSets]]
    /\ \A b \in Blocks : heap[b].used \in BOOLEAN
    /\ errno \in {"0", "EINVAL", "ERANGE", "ENOMEM"}
    /\ fault \in {"none", "oob_write", "oob_read", "use_after_free",
                  "double_free", "map_freed"}

Init ==
    /\ sets = [h \in Handles |-> NullSet]
    /\ heap = [b \in Blocks |-> FreeBlock]
    /\ errno = "0"
    /\ last = NoCall
    /\ fault = "none"

\* What the caller keeps of a call: nothing, or the record and errno.
Result(call, e) ==
    \/ last' = NoCall /\ errno' = "0"
    \/ last' = call /\ errno' = e

\* A call that returns 1 with errno set and touches nothing else.
Fail(op, h, arg, e) ==
    /\ Result(Call(op, h, arg, 1, "unset"), e)
    /\ UNCHANGED <<sets, heap, fault>>

\* A call that runs into undefined behaviour.
Undefined(op, h, arg, kind) ==
    /\ fault' = kind
    /\ errno' = "0"
    /\ last' = Call(op, h, arg, 0, "unset")
    /\ UNCHANGED <<sets, heap>>

\* A call that returns 0 with the given structs and heap.
Done(op, h, arg, newsets, newheap) ==
    /\ sets' = newsets
    /\ heap' = newheap
    /\ Result(Call(op, h, arg, 0, "unset"), "0")
    /\ UNCHANGED fault

----------------------------------------------------------------------------
\* struct bitset * bitset_malloc(size_t length), its result stored in the
\* caller's empty pointer variable h.
bitset_malloc(h, length) ==
    /\ ~sets[h].alloc
    /\ LET bitset_length == bitset_map_size(length) IN
       \/ \* malloc of the struct or of the map returns NULL
          Fail("malloc", h, length, "ENOMEM")
       \/ \* malloc returns a block of arbitrary words
          /\ bitset_length <= FreeWords
          /\ \E w \in Words(bitset_length) :
                Done("malloc", h, length,
                     [sets EXCEPT ![h] = [alloc |-> TRUE, length |-> length,
                                          map_length |-> bitset_length,
                                          map |-> FreshBlock(h)]],
                     [heap EXCEPT ![FreshBlock(h)] =
                                      [used |-> TRUE, words |-> w]])

\* void bitset_free(struct bitset *set); the caller drops the pointer.
bitset_free(h) ==
    IF ~sets[h].alloc
    THEN \* NULL: nothing to do
         Done("free", h, 0, sets, heap)
    ELSE IF ~MapLive(sets[h])
    THEN Undefined("free", h, 0, "double_free")
    ELSE Done("free", h, 0,
              [sets EXCEPT ![h] = NullSet],
              [heap EXCEPT ![sets[h].map] = FreeBlock])

\* memcpy(dst, src, n * sizeof(unsigned int)) within both blocks: the
\* words of dst afterwards.
\* Mutant: one word too few is copied.
memcpy_short(dst, src, n) ==
    [i \in 1 .. Len(dst) |-> IF i <= n - 1 THEN src[i] ELSE dst[i]]

memcpy(dst, src, n) ==
    [i \in 1 .. Len(dst) |-> IF i <= n THEN src[i] ELSE dst[i]]

\* struct bitset * bitset_dup(struct bitset *set): set is the caller's g,
\* and the result is stored in the caller's empty pointer variable h.
bitset_dup(h, g) ==
    /\ ~sets[h].alloc
    /\ LET set == sets[g]
           n   == bitset_map_size(set.length)
       IN
       IF ~set.alloc
       THEN Fail("dup", h, g, "EINVAL")
       ELSE
          \/ \* bitset_malloc returns NULL
             Fail("dup", h, g, "ENOMEM")
          \/ \* bitset_malloc returns a set, memcpy fills its map
             /\ n <= FreeWords
             /\ IF set.map_length > 0 /\ ~MapLive(set)
                THEN Undefined("dup", h, g, "use_after_free")
                ELSE IF set.map_length > n
                THEN Undefined("dup", h, g, "oob_write")
                ELSE \E w \in Words(n) :
                       Done("dup", h, g,
                            [sets EXCEPT ![h] = [alloc |-> TRUE,
                                                 length |-> set.length,
                                                 map_length |-> n,
                                                 map |-> FreshBlock(h)]],
                            [heap EXCEPT ![FreshBlock(h)] =
                                [used |-> TRUE,
                                 words |-> memcpy(w, heap[set.map].words,
                                                  set.map_length)]])

\* The words of the block realloc returns for n words: those of old up to
\* the smaller size, and arbitrary words w beyond.
realloc(old, w, n) ==
    [i \in 1 .. n |-> IF i <= Len(old) THEN old[i] ELSE w[i]]

\* int bitset_resize(struct bitset *set, size_t length)
bitset_resize(h, length) ==
    LET set == sets[h]
        new_map_length == bitset_map_size(length)
    IN
    IF ~set.alloc
    THEN Fail("resize", h, length, "EINVAL")
    ELSE IF new_map_length = set.map_length
    THEN Done("resize", h, length, [sets EXCEPT ![h].length = length], heap)
    ELSE IF ~MapLive(set)
    THEN Undefined("resize", h, length, "use_after_free")
    ELSE
       \/ \* realloc returns NULL and leaves the old block alone
          Fail("resize", h, length, "ENOMEM")
       \/ \* realloc(p, 0) frees the old block and returns NULL: the struct
          \* keeps the pointer
          /\ new_map_length = 0
          /\ fault' = "map_freed"
          /\ errno' = "ENOMEM"
          /\ last' = Call("resize", h, length, 1, "unset")
          /\ heap' = [heap EXCEPT ![set.map] = FreeBlock]
          /\ UNCHANGED sets
       \/ \* realloc returns a block of the new size
          /\ new_map_length <= FreeWords + Len(heap[set.map].words)
          /\ \E w \in Words(new_map_length) :
               Done("resize", h, length,
                    [sets EXCEPT ![h].length = length,
                                 ![h].map_length = new_map_length],
                    [heap EXCEPT ![set.map].words =
                                     realloc(@, w, new_map_length)])

\* static int bitset_update(struct bitset *set, size_t bit, bitset_merge_fn fn)
bitset_update(op, h, bit, fn) ==
    LET set    == sets[h]
        index  == bit \div BITS_PER_INDEX
        offset == bit % BITS_PER_INDEX
    IN
    IF ~set.alloc
    THEN Fail(op, h, bit, "EINVAL")
    ELSE IF ~(set.length >= bit)
    THEN Fail(op, h, bit, "ERANGE")
    ELSE IF ~MapLive(set)
    THEN Undefined(op, h, bit, "use_after_free")
    ELSE IF index >= Len(heap[set.map].words)
    THEN Undefined(op, h, bit, "oob_write")
    ELSE Done(op, h, bit, sets,
              [heap EXCEPT ![set.map].words[index + 1] =
                               Apply(fn, @, ShiftOne(offset))])

bitset_set(h, bit) == bitset_update("set", h, bit, "or")

bitset_reset(h, bit) == bitset_update("reset", h, bit, "andn")

bitset_toggle(h, bit) == bitset_update("toggle", h, bit, "xor")

\* !!(set->map[index] & (1 << offset)), as the value the caller reads
TestValue(words, bit) ==
    IF BitAnd(words[(bit \div BITS_PER_INDEX) + 1],
              ShiftOne(bit % BITS_PER_INDEX)) = 0
    THEN "0" ELSE "1"

\* int bitset_test(struct bitset *set, size_t bit, unsigned int *value);
\* out says whether the caller passes a pointer or NULL for value.
bitset_test(h, bit, out) ==
    LET set   == sets[h]
        index == bit \div BITS_PER_INDEX
    IN
    IF ~set.alloc \/ ~out
    THEN /\ Result(Call("test", h, bit, 1, IF out THEN "unset" ELSE "NULL"),
                   "EINVAL")
         /\ UNCHANGED <<sets, heap, fault>>
    ELSE IF ~MapLive(set)
    THEN Undefined("test", h, bit, "use_after_free")
    ELSE IF index >= Len(heap[set.map].words)
    THEN Undefined("test", h, bit, "oob_read")
    ELSE /\ Result(Call("test", h, bit, 0,
                        TestValue(heap[set.map].words, bit)), "0")
         /\ UNCHANGED <<sets, heap, fault>>

\* The loop of bitset_merge: word i of dst becomes fn(dst[i], src[i]) for
\* i < comp_length, in increasing i (dst and src may be the same block).
RECURSIVE MergeLoop(_, _, _, _, _, _)
MergeLoop(hp, d, s, i, comp_length, fn) ==
    IF i >= comp_length THEN hp
    ELSE MergeLoop([hp EXCEPT ![d].words[i + 1] =
                                  Apply(fn, @, hp[s].words[i + 1])],
                   d, s, i + 1, comp_length, fn)

\* static int bitset_merge(struct bitset *dst, struct bitset *src,
\*                         bitset_merge_fn fn)
bitset_merge(op, h, g, fn) ==
    LET dst == sets[h]
        src == sets[g]
        comp_length == min(dst.map_length, src.map_length)
    IN
    IF ~dst.alloc \/ ~src.alloc
    THEN Fail(op, h, g, "EINVAL")
    ELSE IF comp_length > 0 /\ (~MapLive(dst) \/ ~MapLive(src))
    THEN Undefined(op, h, g, "use_after_free")
    ELSE IF comp_length > 0
            /\ (comp_length > Len(heap[dst.map].words)
                \/ comp_length > Len(heap[src.map].words))
    THEN Undefined(op, h, g, "oob_write")
    ELSE Done(op, h, g, sets,
              MergeLoop(heap, dst.map, src.map, 0, comp_length, fn))

bitset_and(h, g) == bitset_merge("and", h, g, "and")

bitset_or(h, g) == bitset_merge("or", h, g, "or")

bitset_xor(h, g) == bitset_merge("xor", h, g, "xor")

bitset_andn(h, g) == bitset_merge("andn", h, g, "andn")

bitset_not(h) == bitset_merge("not", h, h, "not")

\* memset(map, 0, n * sizeof(unsigned int)) within the block: its words
\* afterwards.
\* Mutant: one word too few is cleared.
memset_short(words, n) ==
    [i \in 1 .. Len(words) |-> IF i <= n - 1 THEN 0 ELSE words[i]]

memset(words, n) ==
    [i \in 1 .. Len(words) |-> IF i <= n THEN 0 ELSE words[i]]

\* int bitset_clear(struct bitset *set)
bitset_clear(h) ==
    LET set == sets[h] IN
    IF ~set.alloc
    THEN Fail("clear", h, 0, "EINVAL")
    ELSE IF set.map_length = 0
    THEN Done("clear", h, 0, sets, heap)
    ELSE IF ~MapLive(set)
    THEN Undefined("clear", h, 0, "use_after_free")
    ELSE IF set.map_length > Len(heap[set.map].words)
    THEN Undefined("clear", h, 0, "oob_write")
    ELSE Done("clear", h, 0, sets,
              [heap EXCEPT ![set.map].words = memset(@, set.map_length)])

----------------------------------------------------------------------------
\* The caller: any call with any arguments, until it inspects a result or
\* a call runs into a memory fault.
Running == fault = "none" /\ last = NoCall

Next ==
    \/ Running /\ \E h \in Handles, n \in SizeT : bitset_malloc(h, n)
    \/ Running /\ \E h \in Handles, g \in Handles : bitset_dup(h, g)
    \/ Running /\ \E h \in Handles, n \in SizeT : bitset_resize(h, n)
    \/ Running /\ \E h \in Handles : bitset_free(h)
    \/ Running /\ \E h \in Handles, b \in SizeT : bitset_set(h, b)
    \/ Running /\ \E h \in Handles, b \in SizeT : bitset_reset(h, b)
    \/ Running /\ \E h \in Handles, b \in SizeT : bitset_toggle(h, b)
    \/ Running /\ \E h \in Handles, b \in SizeT, out \in BOOLEAN :
                      bitset_test(h, b, out)
    \/ Running /\ \E h \in Handles, g \in Handles : bitset_and(h, g)
    \/ Running /\ \E h \in Handles, g \in Handles : bitset_or(h, g)
    \/ Running /\ \E h \in Handles, g \in Handles : bitset_xor(h, g)
    \/ Running /\ \E h \in Handles, g \in Handles : bitset_andn(h, g)
    \/ Running /\ \E h \in Handles : bitset_not(h)
    \/ Running /\ \E h \in Handles : bitset_clear(h)

Spec == Init /\ [][Next]_vars

----------------------------------------------------------------------------
\* What the properties below speak of.

\* The storage words of the set behind h.
Storage(ss, hp, h) == hp[ss[h].map].words

\* Whether bit b lies in the words, and its value there, by arithmetic.
InStorage(words, b) == (b \div BITS_PER_INDEX) < Len(words)

BitAt(words, b) ==
    (words[(b \div BITS_PER_INDEX) + 1] \div (2 ^ (b % BITS_PER_INDEX))) % 2

BitsOf(words) == 0 .. (Len(words) * BITS_PER_INDEX - 1)

\* ceil(n / d), not computed the way the code computes it.
Ceil(n, d) ==
    CHOOSE k \in 0 .. n : k * d >= n /\ \A j \in 0 .. n : j * d >= n => k <= j

\* The inspected call returned: it did not run into a memory fault.
Returned(op) == last.op = op /\ fault = "none"

Updates == {"set", "reset", "toggle"}

\* The truth tables of the merge operators on one bit.
TruthTable(op, x, y) ==
    CASE op = "and"  -> IF x = 1 /\ y = 1 THEN 1 ELSE 0
      [] op = "or"   -> IF x = 1 \/ y = 1 THEN 1 ELSE 0
      [] op = "xor"  -> IF x # y THEN 1 ELSE 0
      [] op = "andn" -> IF x = 1 /\ y = 0 THEN 1 ELSE 0

\* C1: every live bitset has word_count = ceil(length / bits_per_word),
\* after any sequence of operations, successful or failed.
C1_WordCountIsCeil ==
    \A h \in Handles :
        sets[h].alloc =>
            sets[h].map_length = Ceil(sets[h].length, BITS_PER_INDEX)

\* C2: set_bit, reset_bit and toggle_bit with a bit index b >= length fail
\* with ERANGE, change no storage word, length or word_count, and write no
\* word outside the storage.
C2_UpdateBeyondLengthFails ==
    [][(/\ last'.op \in Updates
        /\ sets[last'.h].alloc
        /\ last'.arg >= sets[last'.h].length)
       => (/\ last'.ret = 1
           /\ errno' = "ERANGE"
           /\ UNCHANGED <<sets, heap, fault>>)]_vars

\* C3: test_bit with a bit index b >= length fails with ERANGE, does not
\* write the output value and reads no word outside the storage.
C3_TestBeyondLengthFails ==
    [][(/\ last'.op = "test"
        /\ last'.val # "NULL"
        /\ sets[last'.h].alloc
        /\ last'.arg >= sets[last'.h].length)
       => (/\ last'.ret = 1
           /\ errno' = "ERANGE"
           /\ last'.val = "unset"
           /\ fault' = "none")]_vars

\* C4: a resize whose reallocation fails returns failure with ENOMEM and
\* leaves length, word_count and storage as they were, the set still
\* usable, for every new length.
C4_FailedResizeKeepsSet ==
    [][(/\ last'.op = "resize"
        /\ last'.ret = 1
        /\ errno' = "ENOMEM")
       => (/\ UNCHANGED <<sets, heap, fault>>
           /\ MapLive(sets[last'.h]))]_vars

\* C5: a successful resize sets length to the new length and keeps every
\* bit below min(old length, new length).
C5_ResizeKeepsLowBits ==
    [][(/\ last'.op = "resize"
        /\ last'.ret = 0
        /\ fault' = "none")
       => LET h   == last'.h
              old == Storage(sets, heap, h)
              new == Storage(sets', heap', h)
          IN  /\ sets'[h].length = last'.arg
              /\ \A b \in 0 .. (min(sets[h].length, last'.arg) - 1) :
                    InStorage(old, b) =>
                        InStorage(new, b) /\ BitAt(new, b) = BitAt(old, b)
      ]_vars

\* C6: a successful duplicate has the length, the word_count and, word for
\* word, the storage of the original, in a block of its own; and a call on
\* one bitset (the destination, for a merge) leaves the struct and the
\* storage of every other bitset as they were.
C6_DupEqualAndIndependent ==
    [][(last'.op # "none" /\ fault' = "none")
       => /\ \A g \in Handles \ {last'.h} :
                /\ sets'[g] = sets[g]
                /\ sets[g].alloc =>
                      Storage(sets', heap', g) = Storage(sets, heap, g)
          /\ (last'.op = "dup" /\ last'.ret = 0)
             => LET new == sets'[last'.h]
                    set == sets[last'.arg]
                IN  /\ new.alloc
                    /\ new.length = set.length
                    /\ new.map_length = set.map_length
                    /\ new.map # set.map
                    /\ Len(Storage(sets', heap', last'.h)) = set.map_length
                    /\ Storage(sets', heap', last'.h)
                          = Storage(sets, heap, last'.arg)
      ]_vars

\* C6 witness: a duplicate was made of a set whose words hold a padding
\* bit that is 1.
C6_Witness ==
    /\ Returned("dup") /\ last.ret = 0
    /\ LET new == sets[last.h] IN
       /\ new.map_length > 0
       /\ new.length % BITS_PER_INDEX # 0
       /\ BitAt(Storage(sets, heap, last.h), new.length) = 1
       /\ Storage(sets, heap, last.h) = Storage(sets, heap, last.arg)

C8_MergeKeepsBitsBeyondMinLength ==
    [][(/\ last'.op \in {"and", "or", "xor"}
        /\ last'.ret = 0
        /\ fault' = "none")
       => LET h   == last'.h
              g   == last'.arg
              old == Storage(sets, heap, h)
              new == Storage(sets', heap', h)
          IN  \A b \in min(sets[h].length, sets[g].length)
                          .. (sets[h].length - 1) :
                 InStorage(old, b) => BitAt(new, b) = BitAt(old, b)
      ]_vars

C10_CreateZeroes ==
    [][(/\ last'.op = "malloc"
        /\ last'.ret = 0)
       => LET new == Storage(sets', heap', last'.h) IN
          \A b \in 0 .. (last'.arg - 1) :
             InStorage(new, b) => TestValue(new, b) = "0"
      ]_vars

\* C10, amended: after a successful clear, the call bitset.h names for
\* reaching a known state after create, every bit held in the storage reads
\* as 0 through test_bit, and length and word_count are as they were.
C10_ClearZeroes ==
    [][(/\ last'.op = "clear"
        /\ last'.ret = 0
        /\ fault' = "none")
       => LET new == Storage(sets', heap', last'.h) IN
          /\ sets' = sets
          /\ Len(new) = sets[last'.h].map_length
          /\ \A b \in BitsOf(new) : TestValue(new, b) = "0"
      ]_vars

\* C10 witness: clear returned success on a set with storage.
C10_Witness ==
    /\ Returned("clear") /\ last.ret = 0
    /\ sets[last.h].map_length > 0
    /\ sets[last.h].length > 0

====
